---- MODULE Spec2Model ----
(***************************************************************************)
(* Model of services/markitdown_api/main.py: the MarkItDown HTTP adapter.  *)
(*                                                                         *)
(*   POST /convert              convert_file       (lines 13-39)           *)
(*   GET  /supported-extensions supported_extensions (lines 42-45)         *)
(*   _to_markdown_text          result normalisation (lines 48-68)         *)
(*   _supported_extensions      registry heuristic   (lines 71-133)        *)
(*                                                                         *)
(* Strings are TLA+ strings; Len, SubSeq and \o act on them as on Python   *)
(* str.  Python values handed back by the external converter are records  *)
(* tagged with their type name.                                            *)
(***************************************************************************)
EXTENDS Integers, Sequences, FiniteSets, TLC

VARIABLES
    pc,          \* per request: position inside convert_file
    upload,      \* per request: the UploadFile (contents, filename)
    tmp_path,    \* per request: local tmp_path (line 22)
    converted,   \* per request: local converted (line 25)
    pending,     \* per request: exception in flight while the finally block runs
    response,    \* per request: the HTTP response the handler ended with
    disk,        \* the temporary directory: set of files [path, data, owner];
                 \* owner is history: the request that created the file
    log,         \* server stdout (print, line 27)
    convCalls,   \* history: converter.convert calls [path, outcome], per request
    unlinks,     \* history: os.unlink attempts <<path, ok>>, per request
    normRuns,    \* history: number of _to_markdown_text runs, per request
    converters,  \* converter._converters as introspected by getattr (line 73)
    extResponse, \* last response of GET /supported-extensions
    normIn,      \* argument of a direct _to_markdown_text application
    normOut      \* its result

reqVars == <<pc, upload, tmp_path, converted, pending, response, disk, log,
             convCalls, unlinks, normRuns>>
extVars == <<converters, extResponse>>
normVars == <<normIn, normOut>>
vars == <<pc, upload, tmp_path, converted, pending, response, disk, log,
          convCalls, unlinks, normRuns, converters, extResponse, normIn, normOut>>

----------------------------------------------------------------------------
(* Bounds *)

NumReqs == 2
MaxTmpNames == 2
MaxItems == 2
MaxHandlers == 2

Reqs == 1..NumReqs

----------------------------------------------------------------------------
(* Python values *)

Unset == [kind |-> "unset"]
Absent == [kind |-> "absent"]
PyNone == [kind |-> "NoneType"]
PyStr(s) == [kind |-> "str", val |-> s]
PyInt(n) == [kind |-> "int", val |-> n]
PyObj(t, m) == [kind |-> "object", text |-> t, markdown |-> m]
PySeq(k, xs, t, m) == [kind |-> k, items |-> xs, text |-> t, markdown |-> m]

IsStr(v) == v.kind = "str"
IsSeq(v) == v.kind \in {"list", "tuple"}
HasAttrs(v) == v.kind \in {"object", "list", "tuple"}

\* getattr(v, name, None) for name in {"text", "markdown"}
GetAttr(v, name) ==
    LET a == IF ~HasAttrs(v) THEN Absent
             ELSE IF name = "text" THEN v.text ELSE v.markdown
    IN IF a = Absent THEN PyNone ELSE a

----------------------------------------------------------------------------
(* str(converted), line 68: the generic string representation *)

RECURSIVE JoinRepr(_)
PyRepr(v) ==
    CASE v.kind = "NoneType" -> "None"
      [] v.kind = "int" -> ToString(v.val)
      [] v.kind = "str" -> "'" \o v.val \o "'"
      [] OTHER -> "<object>"

JoinRepr(xs) ==
    IF Len(xs) = 0 THEN ""
    ELSE IF Len(xs) = 1 THEN PyRepr(xs[1])
    ELSE PyRepr(xs[1]) \o ", " \o JoinRepr(Tail(xs))

PyStrOf(v) ==
    CASE v.kind = "NoneType" -> "None"
      [] v.kind = "str" -> v.val
      [] v.kind = "int" -> ToString(v.val)
      [] v.kind = "list" -> "[" \o JoinRepr(v.items) \o "]"
      [] v.kind = "tuple" ->
            "(" \o JoinRepr(v.items) \o (IF Len(v.items) = 1 THEN "," ELSE "") \o ")"
      [] OTHER -> "<object>"

----------------------------------------------------------------------------
(* _to_markdown_text, lines 48-68 *)

\* the markdown attribute probed before the text attribute
MutMarkdownBeforeText(c) ==
    IF c = PyNone THEN PyNone
    ELSE IF IsStr(c) THEN c
    ELSE LET markdown_attr == GetAttr(c, "markdown") IN
    IF IsStr(markdown_attr) THEN markdown_attr
    ELSE LET text_attr == GetAttr(c, "text") IN
    IF IsStr(text_attr) THEN text_attr
    ELSE IF IsSeq(c) /\ Len(c.items) > 0 /\ IsStr(c.items[Len(c.items)])
         THEN c.items[Len(c.items)]
    ELSE PyStr(PyStrOf(c))

_to_markdown_text(c) ==
    IF c = PyNone THEN PyNone
    ELSE IF IsStr(c) THEN c
    ELSE LET text_attr == GetAttr(c, "text") IN
    IF IsStr(text_attr) THEN text_attr
    ELSE LET markdown_attr == GetAttr(c, "markdown") IN
    IF IsStr(markdown_attr) THEN markdown_attr
    ELSE IF IsSeq(c) /\ Len(c.items) > 0 /\ IsStr(c.items[Len(c.items)])
         THEN c.items[Len(c.items)]
    ELSE PyStr(PyStrOf(c))

----------------------------------------------------------------------------
(* Result shapes the external converter can hand back *)

SeqsUpTo(S, n) == UNION {[1..k -> S] : k \in 0..n}

TextAttrVals == {Absent, PyNone, PyInt(7), PyStr("T"), PyStr("")}
MarkdownAttrVals == {Absent, PyNone, PyInt(7), PyStr("M")}
ItemVals == {PyNone, PyInt(7), PyStr("x"), PyStr("y")}

ResultShapes ==
    {PyNone, PyInt(42), PyStr(""), PyStr("# Report")}
    \cup {PyObj(t, m) : t \in TextAttrVals, m \in MarkdownAttrVals}
    \cup {PySeq(k, xs, t, m) : k \in {"list", "tuple"},
                               xs \in SeqsUpTo(ItemVals, MaxItems),
                               t \in TextAttrVals, m \in MarkdownAttrVals}

----------------------------------------------------------------------------
(* Path(file.filename or "").suffix, line 19 *)

LastIndexOf(s, ch) ==
    LET hits == {i \in 1..Len(s) : SubSeq(s, i, i) = ch}
    IN IF hits = {} THEN 0 ELSE CHOOSE i \in hits : \A j \in hits : j <= i

PathName(s) == SubSeq(s, LastIndexOf(s, "/") + 1, Len(s))

PathSuffix(s) ==
    LET name == PathName(s)
        i == LastIndexOf(name, ".")
    IN IF 1 < i /\ i < Len(name) THEN SubSeq(name, i, Len(name)) ELSE ""

FilenameOrEmpty(f) == IF f = PyNone \/ f.val = "" THEN "" ELSE f.val

----------------------------------------------------------------------------
(* Inputs of POST /convert and outcomes of its collaborators *)

Payloads == {"", "%PDF"}
Filenames == {PyNone, PyStr("report.docx")}
ConvertErrors == {"corrupt stream"}
ConvertResults == {PyNone, PyObj(PyStr(""), PyStr("M"))}
ConvertOutcomes ==
    {[raises |-> TRUE, exc |-> e, result |-> Unset] : e \in ConvertErrors}
    \cup {[raises |-> FALSE, exc |-> "", result |-> v] : v \in ConvertResults}

\* tempfile.NamedTemporaryFile(delete=False, suffix=suffix), line 20
TmpNames == {"tmp" \o ToString(i) : i \in 1..MaxTmpNames}
TmpPath(name, suffix) == "/tmp/" \o name \o suffix
DiskPaths == {f.path : f \in disk}

HTTPException(status_code, detail) ==
    [status_code |-> status_code, detail |-> detail]
PlainTextResponse(body) == [status_code |-> 200, body |-> body]
\* an exception the handler does not catch reaches the server's error handler
UnhandledError(name) == [status_code |-> 500, unhandled |-> name]
NoResponse == [status_code |-> 0]

----------------------------------------------------------------------------
(* convert_file, lines 13-39 *)

InitRequests ==
    /\ pc = [r \in Reqs |-> "idle"]
    /\ upload = [r \in Reqs |-> Unset]
    /\ tmp_path = [r \in Reqs |-> ""]
    /\ converted = [r \in Reqs |-> Unset]
    /\ pending = [r \in Reqs |-> Unset]
    /\ response = [r \in Reqs |-> NoResponse]
    /\ disk = {}
    /\ log = <<>>
    /\ convCalls = [r \in Reqs |-> <<>>]
    /\ unlinks = [r \in Reqs |-> <<>>]
    /\ normRuns = [r \in Reqs |-> 0]

\* no discovery request and no direct normalisation under way
DiscoveryIdle == converters = Unset /\ extResponse = NoResponse
NormalizeIdle == normIn = Unset /\ normOut = Unset

Init == InitRequests /\ DiscoveryIdle /\ NormalizeIdle

\* Receive without the emptiness check of lines 16-17
MutReceiveNoEmptyCheck(r, contents, filename) ==
    /\ pc[r] = "idle"
    /\ upload' = [upload EXCEPT ![r] = [contents |-> contents, filename |-> filename]]
    /\ pc' = [pc EXCEPT ![r] = "stage"]
    /\ UNCHANGED <<tmp_path, converted, pending, response, disk, log, convCalls,
                   unlinks, normRuns, extVars, normVars>>

\* lines 14-17: read the upload; an empty payload ends the request with 400
Receive(r, contents, filename) ==
    /\ pc[r] = "idle"
    /\ upload' = [upload EXCEPT ![r] = [contents |-> contents, filename |-> filename]]
    /\ IF contents = ""
       THEN /\ response' = [response EXCEPT
                              ![r] = HTTPException(400, "Uploaded file is empty.")]
            /\ pc' = [pc EXCEPT ![r] = "done"]
       ELSE /\ pc' = [pc EXCEPT ![r] = "stage"]
            /\ UNCHANGED response
    /\ UNCHANGED <<tmp_path, converted, pending, disk, log, convCalls, unlinks,
                   normRuns, extVars, normVars>>

\* Stage with a name that is not created exclusively: an existing path is reused
MutStageSharedName(r, name, written) ==
    LET suffix == PathSuffix(FilenameOrEmpty(upload[r].filename))
        path == TmpPath(name, suffix)
    IN /\ pc[r] = "stage"
       /\ written
       /\ disk' = disk \cup {[path |-> path, data |-> upload[r].contents, owner |-> r]}
       /\ tmp_path' = [tmp_path EXCEPT ![r] = path]
       /\ pc' = [pc EXCEPT ![r] = "convert"]
       /\ UNCHANGED <<upload, converted, pending, response, log, convCalls, unlinks,
                      normRuns, extVars, normVars>>

\* lines 19-22: create a fresh temporary file and write the payload into it.
\* The file is created exclusively (name not on disk); the write may fail
\* (OSError), which leaves the file behind and the handler without tmp_path.
Stage(r, name, written) ==
    LET suffix == PathSuffix(FilenameOrEmpty(upload[r].filename))
        path == TmpPath(name, suffix)
    IN /\ pc[r] = "stage"
       /\ path \notin DiskPaths
       /\ \/ /\ written
             /\ disk' = disk \cup {[path |-> path, data |-> upload[r].contents, owner |-> r]}
             /\ tmp_path' = [tmp_path EXCEPT ![r] = path]
             /\ pc' = [pc EXCEPT ![r] = "convert"]
             /\ UNCHANGED response
          \/ /\ ~written
             /\ disk' = disk \cup {[path |-> path, data |-> "", owner |-> r]}
             /\ response' = [response EXCEPT ![r] = UnhandledError("OSError")]
             /\ pc' = [pc EXCEPT ![r] = "done"]
             /\ UNCHANGED tmp_path
       /\ UNCHANGED <<upload, converted, pending, log, convCalls, unlinks,
                      normRuns, extVars, normVars>>

\* line 25: converter.convert(tmp_path) returns a result or raises
Convert(r, outcome) ==
    /\ pc[r] = "convert"
    /\ convCalls' = [convCalls EXCEPT
                     ![r] = Append(@, [path |-> tmp_path[r], outcome |-> outcome])]
    /\ IF outcome.raises
       THEN /\ pending' = [pending EXCEPT ![r] = [type |-> "Exception", msg |-> outcome.exc]]
            /\ pc' = [pc EXCEPT ![r] = "except"]
            /\ UNCHANGED converted
       ELSE /\ converted' = [converted EXCEPT ![r] = outcome.result]
            /\ pc' = [pc EXCEPT ![r] = "finally"]
            /\ UNCHANGED pending
    /\ UNCHANGED <<upload, tmp_path, response, disk, log, unlinks, normRuns,
                   extVars, normVars>>

\* Except without the print of line 27
MutExceptNoLog(r) ==
    /\ pc[r] = "except"
    /\ pending' = [pending EXCEPT
                     ![r] = HTTPException(422, "Conversion failed: " \o pending[r].msg)]
    /\ pc' = [pc EXCEPT ![r] = "finally"]
    /\ UNCHANGED <<upload, tmp_path, converted, response, disk, log, convCalls,
                   unlinks, normRuns, extVars, normVars>>

\* lines 26-28: log the error, raise HTTPException(422) from it
Except(r) ==
    /\ pc[r] = "except"
    /\ log' = Append(log, "Conversion error: " \o pending[r].msg)
    /\ pending' = [pending EXCEPT
                     ![r] = HTTPException(422, "Conversion failed: " \o pending[r].msg)]
    /\ pc' = [pc EXCEPT ![r] = "finally"]
    /\ UNCHANGED <<upload, tmp_path, converted, response, disk, convCalls, unlinks,
                   normRuns, extVars, normVars>>

\* Cleanup placed after the try statement instead of in its finally block:
\* a converter error leaves the handler without an unlink attempt
MutFinallyOnlyOnSuccess(r, removed) ==
    /\ pc[r] = "finally"
    /\ removed => tmp_path[r] \in DiskPaths
    /\ IF pending[r] # Unset
       THEN /\ response' = [response EXCEPT ![r] = pending[r]]
            /\ pc' = [pc EXCEPT ![r] = "done"]
            /\ UNCHANGED <<disk, unlinks>>
       ELSE /\ disk' = IF removed THEN {f \in disk : f.path # tmp_path[r]} ELSE disk
            /\ unlinks' = [unlinks EXCEPT ![r] = Append(@, <<tmp_path[r], removed>>)]
            /\ pc' = [pc EXCEPT ![r] = "normalize"]
            /\ UNCHANGED response
    /\ UNCHANGED <<upload, tmp_path, converted, pending, log, convCalls, normRuns,
                   extVars, normVars>>

\* Cleanup without the except OSError clause: a failed unlink replaces the
\* outcome of the request
MutFinallySurfacesOSError(r, removed) ==
    /\ pc[r] = "finally"
    /\ removed => tmp_path[r] \in DiskPaths
    /\ disk' = IF removed THEN {f \in disk : f.path # tmp_path[r]} ELSE disk
    /\ unlinks' = [unlinks EXCEPT ![r] = Append(@, <<tmp_path[r], removed>>)]
    /\ IF ~removed
       THEN /\ response' = [response EXCEPT ![r] = UnhandledError("OSError")]
            /\ pc' = [pc EXCEPT ![r] = "done"]
       ELSE IF pending[r] # Unset
       THEN /\ response' = [response EXCEPT ![r] = pending[r]]
            /\ pc' = [pc EXCEPT ![r] = "done"]
       ELSE /\ pc' = [pc EXCEPT ![r] = "normalize"]
            /\ UNCHANGED response
    /\ UNCHANGED <<upload, tmp_path, converted, pending, log, convCalls, normRuns,
                   extVars, normVars>>

\* lines 29-33: os.unlink(tmp_path), OSError swallowed; then the pending
\* HTTPException, if any, leaves the handler
Finally(r, removed) ==
    /\ pc[r] = "finally"
    /\ removed => tmp_path[r] \in DiskPaths
    /\ disk' = IF removed THEN {f \in disk : f.path # tmp_path[r]} ELSE disk
    /\ unlinks' = [unlinks EXCEPT ![r] = Append(@, <<tmp_path[r], removed>>)]
    /\ IF pending[r] # Unset
       THEN /\ response' = [response EXCEPT ![r] = pending[r]]
            /\ pc' = [pc EXCEPT ![r] = "done"]
       ELSE /\ pc' = [pc EXCEPT ![r] = "normalize"]
            /\ UNCHANGED response
    /\ UNCHANGED <<upload, tmp_path, converted, pending, log, convCalls, normRuns,
                   extVars, normVars>>

\* Normalize testing `if not markdown` instead of `if markdown is None`
MutNormalizeFalsy(r) ==
    LET markdown == _to_markdown_text(converted[r])
    IN /\ pc[r] = "normalize"
       /\ normRuns' = [normRuns EXCEPT ![r] = @ + 1]
       /\ response' = [response EXCEPT ![r] =
             IF markdown = PyNone \/ markdown.val = ""
             THEN HTTPException(500, "Conversion returned an unexpected format.")
             ELSE PlainTextResponse(markdown.val)]
       /\ pc' = [pc EXCEPT ![r] = "done"]
       /\ UNCHANGED <<upload, tmp_path, converted, pending, disk, log, convCalls,
                      unlinks, extVars, normVars>>

\* lines 35-39: normalise the result; None is the unexpected format
Normalize(r) ==
    LET markdown == _to_markdown_text(converted[r])
    IN /\ pc[r] = "normalize"
       /\ normRuns' = [normRuns EXCEPT ![r] = @ + 1]
       /\ response' = [response EXCEPT ![r] =
             IF markdown = PyNone
             THEN HTTPException(500, "Conversion returned an unexpected format.")
             ELSE PlainTextResponse(markdown.val)]
       /\ pc' = [pc EXCEPT ![r] = "done"]
       /\ UNCHANGED <<upload, tmp_path, converted, pending, disk, log, convCalls,
                      unlinks, extVars, normVars>>

\* Requests are served concurrently (one handler per request, possibly in
\* several worker processes sharing the temporary directory), so their steps
\* interleave freely.
Next ==
    \/ \E r \in Reqs, c \in Payloads, f \in Filenames : Receive(r, c, f)
    \/ \E r \in Reqs, n \in TmpNames, w \in BOOLEAN : Stage(r, n, w)
    \/ \E r \in Reqs, o \in ConvertOutcomes : Convert(r, o)
    \/ \E r \in Reqs : Except(r)
    \/ \E r \in Reqs, ok \in BOOLEAN : Finally(r, ok)
    \/ \E r \in Reqs : Normalize(r)

Spec == Init /\ [][Next]_vars

----------------------------------------------------------------------------
(* _to_markdown_text applied to every result shape *)

InitNorm ==
    /\ InitRequests
    /\ DiscoveryIdle
    /\ normIn \in ResultShapes
    /\ normOut = Unset

ApplyNormalize ==
    /\ normOut = Unset
    /\ normOut' = _to_markdown_text(normIn)
    /\ UNCHANGED <<normIn, reqVars, extVars>>

NextNorm == ApplyNormalize

SpecNorm == InitNorm /\ [][NextNorm]_vars

----------------------------------------------------------------------------
(* Python str helpers used by _supported_extensions *)

UpperAlpha == "ABCDEFGHIJKLMNOPQRSTUVWXYZ"
LowerAlpha == "abcdefghijklmnopqrstuvwxyz"
Digits == "0123456789"

CharAt(s, i) == SubSeq(s, i, i)
CharsOf(s) == {CharAt(s, i) : i \in 1..Len(s)}
IndexOf(s, ch) == CHOOSE i \in 1..Len(s) : CharAt(s, i) = ch

\* str.lower(), line 81
LowerTable == [ch \in CharsOf(UpperAlpha) |-> CharAt(LowerAlpha, IndexOf(UpperAlpha, ch))]
UpperChars == DOMAIN LowerTable

RECURSIVE Lower(_)
Lower(s) ==
    IF s = "" THEN ""
    ELSE LET ch == Head(s)
         IN (IF ch \in UpperChars THEN LowerTable[ch] ELSE ch) \o Lower(Tail(s))

\* marker in converter_name, lines 84-118
Contains(name, marker) ==
    \E i \in 1..(Len(name) - Len(marker) + 1) :
        SubSeq(name, i, i + Len(marker) - 1) = marker

\* code points of the characters of extension strings
OrdTable ==
    [ch \in {"."} \cup CharsOf(Digits) \cup CharsOf(LowerAlpha) |->
        IF ch = "." THEN 46
        ELSE IF ch \in CharsOf(Digits) THEN 47 + IndexOf(Digits, ch)
        ELSE 96 + IndexOf(LowerAlpha, ch)]
Ord(ch) == OrdTable[ch]

\* a < b on Python str: code point order, a proper prefix is smaller
RECURSIVE StrLess(_, _)
StrLess(a, b) ==
    IF b = "" THEN FALSE
    ELSE IF a = "" THEN TRUE
    ELSE IF Ord(Head(a)) # Ord(Head(b)) THEN Ord(Head(a)) < Ord(Head(b))
    ELSE StrLess(Tail(a), Tail(b))

\* sorted(extensions), line 133
RECURSIVE InsertSorted(_, _)
InsertSorted(x, xs) ==
    IF xs = <<>> THEN <<x>>
    ELSE IF StrLess(Head(xs), x) THEN <<Head(xs)>> \o InsertSorted(x, Tail(xs))
    ELSE <<x>> \o xs

\* sorted(extensions, reverse=True)
RECURSIVE MutSortedDescending(_)
MutSortedDescending(S) ==
    IF S = {} THEN <<>>
    ELSE LET x == CHOOSE y \in S : \A z \in S : z = y \/ StrLess(z, y)
         IN <<x>> \o MutSortedDescending(S \ {x})

RECURSIVE Sorted(_)
Sorted(S) ==
    IF S = {} THEN <<>>
    ELSE LET x == CHOOSE y \in S : TRUE
         IN InsertSorted(x, Sorted(S \ {x}))

----------------------------------------------------------------------------
(* _supported_extensions, lines 71-133 *)

\* The markers of lines 84-119 in source order, each with the marker whose
\* absence its condition also requires ("" when none) and its extensions
MarkerTable ==
    << [marker |-> "pdf", unless |-> "", exts |-> {".pdf"}],
       [marker |-> "docx", unless |-> "", exts |-> {".docx"}],
       [marker |-> "doc", unless |-> "docx", exts |-> {".doc"}],
       [marker |-> "pptx", unless |-> "", exts |-> {".pptx"}],
       [marker |-> "ppt", unless |-> "pptx", exts |-> {".ppt"}],
       [marker |-> "xlsx", unless |-> "", exts |-> {".xlsx"}],
       [marker |-> "xls", unless |-> "xlsx", exts |-> {".xls"}],
       [marker |-> "csv", unless |-> "", exts |-> {".csv"}],
       [marker |-> "html", unless |-> "", exts |-> {".html", ".htm"}],
       [marker |-> "epub", unless |-> "", exts |-> {".epub"}],
       [marker |-> "ipynb", unless |-> "", exts |-> {".ipynb"}],
       [marker |-> "image", unless |-> "",
        exts |-> {".png", ".jpg", ".jpeg", ".gif", ".bmp", ".tiff", ".webp"}],
       [marker |-> "audio", unless |-> "", exts |-> {".mp3", ".wav", ".m4a", ".flac"}],
       [marker |-> "msg", unless |-> "", exts |-> {".msg"}],
       [marker |-> "plaintext", unless |-> "", exts |-> {".txt", ".md", ".rst", ".log"}],
       [marker |-> "zip", unless |-> "", exts |-> {".zip"}],
       [marker |-> "rss", unless |-> "", exts |-> {".xml", ".rss"}],
       [marker |-> "json", unless |-> "", exts |-> {".json"}] >>

MarkerHits(name) ==
    {i \in 1..Len(MarkerTable) :
        /\ Contains(name, MarkerTable[i].marker)
        /\ MarkerTable[i].unless = "" \/ ~Contains(name, MarkerTable[i].unless)}

\* every marker the name contains contributes
AllMarkerExtensions(name) == UNION {MarkerTable[i].exts : i \in MarkerHits(name)}

\* only the first marker, in source order, contributes
FirstMarkerExtensions(name) ==
    LET hits == MarkerHits(name)
    IN IF hits = {} THEN {}
       ELSE MarkerTable[CHOOSE i \in hits : \A j \in hits : i <= j].exts

\* independent if statements instead of the if/elif chain
MutExtensionsForIndependentIfs(converter_name) == AllMarkerExtensions(converter_name)

\* lines 84-119: the if/elif chain on the lowercased class name
ExtensionsFor(converter_name) ==
    IF Contains(converter_name, "pdf") THEN {".pdf"}
    ELSE IF Contains(converter_name, "docx") THEN {".docx"}
    ELSE IF Contains(converter_name, "doc") /\ ~Contains(converter_name, "docx")
         THEN {".doc"}
    ELSE IF Contains(converter_name, "pptx") THEN {".pptx"}
    ELSE IF Contains(converter_name, "ppt") /\ ~Contains(converter_name, "pptx")
         THEN {".ppt"}
    ELSE IF Contains(converter_name, "xlsx") THEN {".xlsx"}
    ELSE IF Contains(converter_name, "xls") /\ ~Contains(converter_name, "xlsx")
         THEN {".xls"}
    ELSE IF Contains(converter_name, "csv") THEN {".csv"}
    ELSE IF Contains(converter_name, "html") THEN {".html", ".htm"}
    ELSE IF Contains(converter_name, "epub") THEN {".epub"}
    ELSE IF Contains(converter_name, "ipynb") THEN {".ipynb"}
    ELSE IF Contains(converter_name, "image")
         THEN {".png", ".jpg", ".jpeg", ".gif", ".bmp", ".tiff", ".webp"}
    ELSE IF Contains(converter_name, "audio") THEN {".mp3", ".wav", ".m4a", ".flac"}
    ELSE IF Contains(converter_name, "msg") THEN {".msg"}
    ELSE IF Contains(converter_name, "plaintext") THEN {".txt", ".md", ".rst", ".log"}
    ELSE IF Contains(converter_name, "zip") THEN {".zip"}
    ELSE IF Contains(converter_name, "rss") THEN {".xml", ".rss"}
    ELSE IF Contains(converter_name, "json") THEN {".json"}
    ELSE {}

\* line 122
CommonExtensions == {".yaml", ".yml", ".tsv", ".rtf", ".eml", ".tex"}

\* lines 126-131
FallbackExtensions ==
    {".pdf", ".doc", ".docx", ".ppt", ".pptx", ".xls", ".xlsx",
     ".txt", ".md", ".html", ".htm", ".csv", ".tsv", ".json",
     ".xml", ".yaml", ".yml", ".ipynb", ".rst", ".tex", ".rtf",
     ".eml", ".msg", ".epub", ".zip"}

\* lines 78-119: the loop over the registrations
RECURSIVE CollectExtensions(_, _)
CollectExtensions(regs, extensions) ==
    IF regs = <<>> THEN extensions
    ELSE LET conv_reg == Head(regs)
             added == IF conv_reg.has_converter
                      THEN ExtensionsFor(Lower(conv_reg.class_name))
                      ELSE {}
         IN CollectExtensions(Tail(regs), extensions \cup added)

\* lines 73-76: the registry is used only when it is a non-empty list
Introspected(convs) ==
    IF convs # PyNone /\ convs.kind = "list" /\ Len(convs.items) > 0
    THEN CollectExtensions(convs.items, {})
    ELSE {}

\* line 122 left out
MutWithCommonSkipped(extensions) == extensions

\* lines 121-122
WithCommon(extensions) == extensions \cup CommonExtensions

\* lines 124-131
WithFallback(extensions) == IF extensions = {} THEN FallbackExtensions ELSE extensions

_supported_extensions(convs) == Sorted(WithFallback(WithCommon(Introspected(convs))))

----------------------------------------------------------------------------
(* States of converter._converters as seen by getattr (line 73) *)

ClassNames ==
    {"PdfConverter", "DocxConverter", "DocConverter", "PptxConverter", "PptConverter",
     "XlsxConverter", "XlsConverter", "CsvConverter", "HtmlConverter", "EpubConverter",
     "IpynbConverter", "ImageConverter", "AudioConverter", "OutlookMsgConverter",
     "PlainTextConverter", "ZipConverter", "RssConverter", "JsonConverter",
     "WikipediaConverter", "DocumentIntelligenceConverter",
     "PdfDocxConverter", "DocxPdfConverter", "XlsxCsvConverter", "ZipJSONConverter"}

Registrations ==
    {[has_converter |-> TRUE, class_name |-> n] : n \in ClassNames}
    \cup {[has_converter |-> FALSE, class_name |-> ""]}

RegistryStates ==
    {PyNone}
    \cup {[kind |-> "list", items |-> xs] : xs \in SeqsUpTo(Registrations, MaxHandlers)}
    \cup {[kind |-> "tuple", items |-> xs] : xs \in SeqsUpTo(Registrations, 1)}

----------------------------------------------------------------------------
(* supported_extensions, lines 42-45 *)

JSONResponse(extensions) == [status_code |-> 200, extensions |-> extensions]

InitExt ==
    /\ InitRequests
    /\ NormalizeIdle
    /\ converters \in RegistryStates
    /\ extResponse = NoResponse

supported_extensions ==
    /\ extResponse = NoResponse
    /\ extResponse' = JSONResponse(_supported_extensions(converters))
    /\ UNCHANGED <<converters, reqVars, normVars>>

NextExt == supported_extensions

SpecExt == InitExt /\ [][NextExt]_vars

----------------------------------------------------------------------------
(* Properties of POST /convert *)

Done(r) == pc[r] = "done"
OwnedFiles(r) == {f \in disk : f.owner = r}
LogLines == {log[i] : i \in 1..Len(log)}
ConverterCalled(r) == convCalls[r] # <<>>
ConvOutcome(r) == convCalls[r][1].outcome
UnlinkOk(r) == unlinks[r][1][2]

EmptyUpload == HTTPException(400, "Uploaded file is empty.")
UnexpectedFormat == HTTPException(500, "Conversion returned an unexpected format.")

\* the four outcomes convert_file itself produces
ListedOutcome(resp) ==
    \/ resp = EmptyUpload
    \/ resp.status_code = 422
    \/ resp = UnexpectedFormat
    \/ resp.status_code = 200

\* The normalisation rules (a)-(f) as an ordered table: rule k applies to c
\* when RuleApplies(k, c), and then yields RuleYields(k, c); the first
\* applicable rule wins.
RuleApplies(k, c) ==
    CASE k = 1 -> c.kind = "str"
      [] k = 2 -> c.kind = "NoneType"
      [] k = 3 -> HasAttrs(c) /\ c.text.kind = "str"
      [] k = 4 -> HasAttrs(c) /\ c.markdown.kind = "str"
      [] k = 5 -> /\ c.kind \in {"list", "tuple"}
                  /\ c.items # <<>>
                  /\ c.items[Len(c.items)].kind = "str"
      [] k = 6 -> TRUE

RuleYields(k, c) ==
    CASE k = 1 -> c
      [] k = 2 -> PyNone
      [] k = 3 -> c.text
      [] k = 4 -> c.markdown
      [] k = 5 -> c.items[Len(c.items)]
      [] k = 6 -> PyStr(PyStrOf(c))

FirstMatchWins(c) ==
    LET k == CHOOSE i \in 1..6 : RuleApplies(i, c) /\ \A j \in 1..(i - 1) : ~RuleApplies(j, c)
    IN RuleYields(k, c)

\* C1 as stated: once a request has ended with one of the four outcomes, no
\* file it created is left on disk.
C1_NoStagedFileRemains ==
    \A r \in Reqs : Done(r) /\ ListedOutcome(response[r]) => OwnedFiles(r) = {}

\* C1 amended: a request that ended with 400 never staged a file nor called
\* unlink; a request that ended with 422, 500 (unexpected format) or 200 has
\* attempted the deletion of its staged file exactly once before its response
\* was produced, and that file is still on disk only if the attempt failed.
C1_DeletionAttemptedOnce ==
    \A r \in Reqs :
        /\ response[r] # NoResponse <=> Done(r)
        /\ Done(r) /\ ListedOutcome(response[r]) =>
              IF response[r] = EmptyUpload
              THEN OwnedFiles(r) = {} /\ unlinks[r] = <<>>
              ELSE /\ Len(unlinks[r]) = 1
                   /\ unlinks[r][1][1] = tmp_path[r]
                   /\ \A f \in OwnedFiles(r) : f.path = tmp_path[r]
                   /\ OwnedFiles(r) # {} => ~UnlinkOk(r)

C1_Witness ==
    \E r1, r2 \in Reqs :
        /\ Done(r1) /\ response[r1].status_code = 422
        /\ unlinks[r1] = <<<<tmp_path[r1], TRUE>>>> /\ OwnedFiles(r1) = {}
        /\ Done(r2) /\ response[r2].status_code = 200
        /\ unlinks[r2] = <<<<tmp_path[r2], FALSE>>>> /\ OwnedFiles(r2) # {}

\* C2: a request whose payload is empty has ended with 400 "Uploaded file is
\* empty." whatever its filename, has created no file and has not called the
\* converter.
C2_EmptyUploadRejected ==
    \A r \in Reqs :
        upload[r] # Unset /\ upload[r].contents = "" =>
            /\ Done(r)
            /\ response[r] = [status_code |-> 400, detail |-> "Uploaded file is empty."]
            /\ OwnedFiles(r) = {}
            /\ tmp_path[r] = ""
            /\ ~ConverterCalled(r)
            /\ unlinks[r] = <<>>

C2_Witness ==
    \E r1, r2 \in Reqs :
        /\ upload[r1] = [contents |-> "", filename |-> PyNone]
        /\ upload[r2] = [contents |-> "", filename |-> PyStr("report.docx")]
        /\ response[r1].status_code = 400 /\ response[r2].status_code = 400

\* C3: when the converter raised e, normalisation is never run, and a response
\* exists only after "Conversion error: e" was logged and one unlink of the
\* staged file was attempted (the log line coming first); that response is
\* 422 "Conversion failed: e".
C3_ConverterErrorIs422 ==
    \A r \in Reqs :
        ConverterCalled(r) /\ ConvOutcome(r).raises =>
            /\ upload[r].contents # ""
            /\ normRuns[r] = 0
            /\ response[r] # NoResponse =>
                  /\ response[r] = [status_code |-> 422,
                                    detail |-> "Conversion failed: " \o ConvOutcome(r).exc]
                  /\ ("Conversion error: " \o ConvOutcome(r).exc) \in LogLines
                  /\ Len(unlinks[r]) = 1
                  /\ unlinks[r][1][1] = tmp_path[r]
            /\ Len(unlinks[r]) = 1 => ("Conversion error: " \o ConvOutcome(r).exc) \in LogLines

C3_Witness ==
    \E r \in Reqs :
        /\ ConverterCalled(r) /\ ConvOutcome(r).exc = "corrupt stream"
        /\ response[r] = HTTPException(422, "Conversion failed: corrupt stream")
        /\ log = <<"Conversion error: corrupt stream">>

\* C4: when the converter returned v, the request ends with 500 "Conversion
\* returned an unexpected format." exactly when v is None, and otherwise with
\* 200 and the text the normalisation rules give for v as its body.
C4_NullIs500ElseNormalizedText ==
    \A r \in Reqs :
        ConverterCalled(r) /\ ~ConvOutcome(r).raises /\ Done(r) =>
            /\ upload[r].contents # ""
            /\ response[r] = UnexpectedFormat <=> ConvOutcome(r).result = PyNone
            /\ ConvOutcome(r).result # PyNone =>
                  response[r] = [status_code |-> 200,
                                 body |-> FirstMatchWins(ConvOutcome(r).result).val]

C4_Witness ==
    \E r1, r2 \in Reqs :
        /\ Done(r1) /\ ConverterCalled(r1) /\ ConvOutcome(r1).result = PyNone
        /\ response[r1].status_code = 500
        /\ Done(r2) /\ ConverterCalled(r2)
        /\ ConvOutcome(r2).result = PyObj(PyStr(""), PyStr("M"))
        /\ response[r2] = PlainTextResponse("")

\* C9: os.unlink is attempted at most once per request, and two requests with
\* the same converter outcome, one whose unlink failed and one whose unlink
\* succeeded, end with the same response.
C9_UnlinkFailureInvisible ==
    /\ \A r \in Reqs : Len(unlinks[r]) <= 1
    /\ \A r1, r2 \in Reqs :
          /\ Done(r1) /\ Len(unlinks[r1]) = 1 /\ ~UnlinkOk(r1)
          /\ Done(r2) /\ Len(unlinks[r2]) = 1 /\ UnlinkOk(r2)
          /\ ConvOutcome(r1) = ConvOutcome(r2)
          => response[r1] = response[r2]

C9_Witness ==
    \E r1, r2 \in Reqs :
        /\ Done(r1) /\ unlinks[r1] = <<<<tmp_path[r1], FALSE>>>>
        /\ Done(r2) /\ unlinks[r2] = <<<<tmp_path[r2], TRUE>>>>
        /\ ConvOutcome(r1) = ConvOutcome(r2)
        /\ ConvOutcome(r1).raises
        /\ response[r1].status_code = 422

\* C10: a request between staging and cleanup owns exactly one file, the one
\* at its tmp_path holding its payload; no two such requests share a path; no
\* path names two files; the converter and os.unlink are only ever given the
\* request's own tmp_path.
InFlight(r) == pc[r] \in {"convert", "except", "finally"}

C10_StagedFilesDisjoint ==
    /\ \A r \in Reqs :
          InFlight(r) =>
              OwnedFiles(r) = {[path |-> tmp_path[r], data |-> upload[r].contents,
                                owner |-> r]}
    /\ \A r1, r2 \in Reqs : r1 # r2 /\ InFlight(r1) /\ InFlight(r2) =>
          tmp_path[r1] # tmp_path[r2]
    /\ \A f, g \in disk : f.path = g.path => f = g
    /\ \A r \in Reqs :
          /\ \A i \in 1..Len(convCalls[r]) : convCalls[r][i].path = tmp_path[r]
          /\ \A i \in 1..Len(unlinks[r]) : unlinks[r][i][1] = tmp_path[r]

C10_Witness ==
    \E r1, r2 \in Reqs :
        /\ r1 # r2
        /\ pc[r1] = "finally" /\ pc[r2] = "convert"
        /\ upload[r1].filename = upload[r2].filename
        /\ OwnedFiles(r1) # {} /\ OwnedFiles(r2) # {}

----------------------------------------------------------------------------
(* Properties of _to_markdown_text *)

\* C5: _to_markdown_text agrees with the ordered first-match-wins rules
\* (a)-(f) on every result shape.
C5_NormalizationIsFirstMatch ==
    normOut # Unset => normOut = FirstMatchWins(normIn)

C5_Witness ==
    /\ normIn = PySeq("list", <<PyStr("x"), PyInt(7)>>, PyInt(7), PyNone)
    /\ normOut = PyStr("['x', 7]")

----------------------------------------------------------------------------
(* Properties of GET /supported-extensions *)

Responded == extResponse # NoResponse
Returned == {extResponse.extensions[i] : i \in 1..Len(extResponse.extensions)}

\* lowercased class names of the handlers the loop of lines 78-119 visits
RegisteredNames ==
    IF converters # PyNone /\ converters.kind = "list"
    THEN {Lower(converters.items[i].class_name) :
             i \in {j \in 1..Len(converters.items) : converters.items[j].has_converter}}
    ELSE {}

\* lexicographic order of str by code point, stated positionally
CodePointOrder == ".0123456789abcdefghijklmnopqrstuvwxyz"
Precedes(a, b) ==
    \E k \in 1..Len(b) :
        /\ Len(a) >= k - 1
        /\ SubSeq(a, 1, k - 1) = SubSeq(b, 1, k - 1)
        /\ \/ Len(a) = k - 1
           \/ IndexOf(CodePointOrder, CharAt(a, k)) < IndexOf(CodePointOrder, CharAt(b, k))

\* C6: the response holds .yaml, .yml, .tsv, .rtf, .eml and .tex for every
\* registry state, and is never the 25-entry fallback list.
C6_CommonAlwaysIncluded ==
    Responded =>
        /\ {".yaml", ".yml", ".tsv", ".rtf", ".eml", ".tex"} \subseteq Returned
        /\ Returned # FallbackExtensions

C6_Witness ==
    /\ converters = PyNone
    /\ extResponse.status_code = 200
    /\ extResponse.extensions = <<".eml", ".rtf", ".tex", ".tsv", ".yaml", ".yml">>

\* C7: the response is 200 and its extensions list is strictly ascending in
\* lexicographic order, hence free of duplicates.
C7_SortedNoDuplicates ==
    Responded =>
        /\ extResponse.status_code = 200
        /\ \A i, j \in 1..Len(extResponse.extensions) :
              i < j => Precedes(extResponse.extensions[i], extResponse.extensions[j])

C7_Witness ==
    /\ Responded
    /\ converters.kind = "list"
    /\ converters.items = <<[has_converter |-> TRUE, class_name |-> "HtmlConverter"],
                            [has_converter |-> TRUE, class_name |-> "HtmlConverter"]>>
    /\ extResponse.extensions =
          <<".eml", ".htm", ".html", ".rtf", ".tex", ".tsv", ".yaml", ".yml">>

\* C8 as stated: the returned set is the six common extensions plus, for
\* every registered handler, the extensions of every marker its name contains.
C8_EveryMarkerContributes ==
    Responded =>
        Returned = CommonExtensions \cup UNION {AllMarkerExtensions(n) : n \in RegisteredNames}

\* C8 amended: the returned set is the six common extensions plus, for every
\* registered handler, the extensions of the first marker (in source order)
\* its name contains; in particular a docx handler never contributes .doc.
C8_FirstMarkerContributes ==
    Responded =>
        /\ Returned =
              CommonExtensions \cup UNION {FirstMarkerExtensions(n) : n \in RegisteredNames}
        /\ (\A n \in RegisteredNames : Contains(n, "docx")) => ".doc" \notin Returned

C8_Witness ==
    /\ Responded
    /\ converters.kind = "list"
    /\ converters.items = <<[has_converter |-> TRUE, class_name |-> "PdfDocxConverter"]>>
    /\ Returned = CommonExtensions \cup {".pdf"}

====
